---- MODULE Spec2Model ----
(***************************************************************************)
(* Model of trast/evilmergediff: the tree-based evil-merge detector        *)
(* (evil-base-treediff.py) and the hunk-based detector                     *)
(* (evil-base-diffdiff.py).                                                *)
(*                                                                         *)
(* The module holds several specifications over one set of variables; a    *)
(* specification drives one group of variables and leaves the others at    *)
(* their idle values.                                                      *)
(***************************************************************************)
EXTENDS Integers, Sequences, FiniteSets, TLC

VARIABLES
    \* ---- evil-base-treediff.py: one call of detect_evilness ----
    treeM,        \* tree of the merge commit      (dict filename -> sha)
    treeA,        \* tree of parent 1
    treeB,        \* tree of parent 2
    treeY,        \* trees of the merge bases, a sequence
    suspects,     \* the value detect_evilness returns
    tstate        \* "idle" | "returned" | "raised"

VARIABLES
    \* ---- evil-base-diffdiff.py: one call of split_diff ----
    data,         \* the lines of the input read so far
    diff,         \* split_diff's dict filename -> list of hunks
    hunk,         \* the hunk being collected, a list of lines
    filename,     \* the file named last, Unbound before the first one
    sstate        \* "reading" | "done" | "raised"

VARIABLES
    \* ---- evil-base-diffdiff.py: one call of remove_common_hunks ----
    d1,           \* its first argument, a dict filename -> list of hunks
    d2,           \* its second argument
    d1new,        \* the first dict it returns
    d2new,        \* the second dict it returns
    cstate        \* "idle" | "called" | "returned"

VARIABLES
    \* ---- evil-base-diffdiff.py: one call of any_suspicious_lines or of
    \*      find_suspicious_hunks ----
    delta,        \* the interdiff any_suspicious_lines is given
    flagged,      \* what any_suspicious_lines returns
    dxM,          \* find_suspicious_hunks' first argument
    dYx,          \* find_suspicious_hunks' second argument, a list of dicts
    found,        \* the dict find_suspicious_hunks returns
    fstate        \* "idle" | "scanned" | "found"

VARIABLES
    \* ---- evil-base-diffdiff.py: one call of detect_evilness ----
    fileA,        \* the content of the file f in parent 1
    fileB,        \* the content of f in parent 2
    fileM,        \* the content of f in the merge
    idiff_A,      \* find_suspicious_hunks(dAM, dYB)
    idiff_B,      \* find_suspicious_hunks(dBM, dYA)
    estate        \* "idle" | "called" | "returned" | "raised"

VARIABLES
    \* ---- both programs: one run from the command line ----
    tool,          \* "treediff" | "diffdiff": the program that runs
    options_stdin, \* options.stdin
    input,         \* the argument lists: sys.stdin's lines, or <<args>>
    lineno,        \* the number of the line the loop is at
    stdout,        \* what was printed, with the line that printed it
    stderr,        \* the diagnostics written
    exit_status,   \* the status of the process once it has exited
    bstate         \* "idle" | "running" | "exited"

treeVars == <<treeM, treeA, treeB, treeY, suspects, tstate>>

splitVars == <<data, diff, hunk, filename, sstate>>

commonVars == <<d1, d2, d1new, d2new, cstate>>

scanVars == <<delta, flagged, dxM, dYx, found, fstate>>

hunkVars == <<fileA, fileB, fileM, idiff_A, idiff_B, estate>>

batchVars ==
    <<tool, options_stdin, input, lineno, stdout, stderr, exit_status, bstate>>

vars == <<treeVars, splitVars, commonVars, scanVars, hunkVars, batchVars>>

\* What an operation of one group leaves alone: the other groups.
notTree == <<splitVars, commonVars, scanVars, hunkVars, batchVars>>

notSplit == <<treeVars, commonVars, scanVars, hunkVars, batchVars>>

notCommon == <<treeVars, splitVars, scanVars, hunkVars, batchVars>>

notScan == <<treeVars, splitVars, commonVars, hunkVars, batchVars>>

notHunk == <<treeVars, splitVars, commonVars, scanVars, batchVars>>

notBatch == <<treeVars, splitVars, commonVars, scanVars, hunkVars>>

(***************************************************************************)
(* Bounds                                                                  *)
(***************************************************************************)
MaxBases == 2

\* The longest input split_diff is given, in lines.
MaxDiffLines == 8

\* The most hunks a file has in a diff.
MaxHunks == 2

\* The longest interdiff any_suspicious_lines is given, in lines.
MaxScanLen == 3

\* The number of lines of the file f in every commit.
FileLen == 2

\* The most lines the standard input of a batch run holds.
MaxLines == 2

(***************************************************************************)
(* Generic helpers                                                         *)
(***************************************************************************)
Range(s) == {s[i] : i \in 1..Len(s)}

SeqsUpTo(S, n) == UNION {[1..k -> S] : k \in 0..n}

Min(S) == CHOOSE x \in S : \A y \in S : x <= y

Max(S) == CHOOSE x \in S : \A y \in S : x >= y

(***************************************************************************)
(* evil-base-treediff.py                                                   *)
(***************************************************************************)

\* The null sha1 stands for a file that is not in a tree.
nonexistent == "0000000000000000000000000000000000000000"

\* Blob hashes git can report for real content.
Hashes == {"h1", "h2"}

\* File names, and their order under Python's string comparison.
Paths == {"f", "g"}

PathRank == [f \in Paths |-> IF f = "f" THEN 1 ELSE 2]

\* The reasons detect_evilness attaches, and their order as Python strings
\* ('^' sorts before 'b', '1' before '2').
BothTook1 == "modified in both, took ^1"

BothTook2 == "modified in both, took ^2"

Mod2Took1 == "modified in ^2,   took ^1"

Mod1Took2 == "modified in ^1,   took ^2"

ReasonRank(r) ==
    CASE r = Mod1Took2 -> 1
      [] r = Mod2Took1 -> 2
      [] r = BothTook1 -> 3
      [] r = BothTook2 -> 4

\* dict_ls_tree: the files of a commit as a dict filename -> sha; the set of
\* its keys is the DOMAIN.
Trees == UNION {[S -> Hashes] : S \in SUBSET Paths}

\* Reading the defaultdict: the null sha1 for a file that is not in the tree.
Lookup(tree, f) == IF f \in DOMAIN tree THEN tree[f] ELSE nonexistent

find_changed(fileset, tree1, tree2) ==
    {f \in fileset : Lookup(tree1, f) # Lookup(tree2, f)}

\* any(side[f] == t[f] for t in treeY)
AnyBaseAll(side, f, tY) ==
    Len(tY) > 0 /\ \A i \in 1..Len(tY) : Lookup(side, f) = Lookup(tY[i], f)

AnyBase(side, f, tY) ==
    \E i \in 1..Len(tY) : Lookup(side, f) = Lookup(tY[i], f)

\* case (1): the tuples the first loop appends.
Case1(files_changed, tM, tA, tB, tY) ==
    LET open == {f \in files_changed :
                    ~AnyBase(tA, f, tY) /\ ~AnyBase(tB, f, tY)}
    IN  {<<f, BothTook1>> : f \in {g \in open : Lookup(tM, g) = Lookup(tA, g)}}
        \cup
        {<<f, BothTook2>> : f \in {g \in open :
                                      /\ Lookup(tM, g) # Lookup(tA, g)
                                      /\ Lookup(tM, g) = Lookup(tB, g)}}

\* files_changed.difference_update(f for f,reason in suspects)
DifferenceUpdateNone(files_changed, listed) == files_changed

DifferenceUpdate(files_changed, listed) ==
    files_changed \ {t[1] : t \in listed}

\* case (2): the tuples one call of case2_helper appends.
case2_helperNoSide1(files_changed, side1, side2, cause, tM, tY) ==
    {<<f, cause>> : f \in {g \in files_changed : ~AnyBase(side2, g, tY)}}

case2_helper(files_changed, side1, side2, cause, tM, tY) ==
    {<<f, cause>> : f \in {g \in files_changed :
                              /\ Lookup(side1, g) = Lookup(tM, g)
                              /\ ~AnyBase(side2, g, tY)}}

\* Python's order on the (filename, reason) tuples.
TupleLess(s, t) ==
    \/ PathRank[s[1]] < PathRank[t[1]]
    \/ s[1] = t[1] /\ ReasonRank(s[2]) < ReasonRank(t[2])

\* The orders in which a loop over a Python set can append its tuples: the
\* order is the hash order, which the program does not control.
AppendOrders(S) == {s \in [1..Cardinality(S) -> S] : Range(s) = S}

\* suspects.sort(): insertion of each element at its place.
RECURSIVE Insert(_, _)
Insert(t, sorted) ==
    IF sorted = <<>> THEN <<t>>
    ELSE IF TupleLess(sorted[1], t)
         THEN <<sorted[1]>> \o Insert(t, Tail(sorted))
         ELSE <<t>> \o sorted

RECURSIVE Sort(_)
Sort(list) ==
    IF list = <<>> THEN <<>> ELSE Insert(list[1], Sort(Tail(list)))

\* detect_evilness(M, A, B, bases) on the trees of the four arguments: the
\* set of the outcomes the call can have, one per order of the loops.
\* zip(*[...]) of an empty list is [], and unpacking it into
\* (treeY, filesY) raises ValueError.
detect_evilness(tM, tA, tB, tY) ==
    IF Len(tY) = 0
    THEN {[raised |-> TRUE, suspects |-> <<>>]}
    ELSE
    LET files_MAB == DOMAIN tM \cup DOMAIN tA \cup DOMAIN tB
        files_changed == find_changed(files_MAB, tA, tM)
                         \cup find_changed(files_MAB, tB, tM)
        c1   == Case1(files_changed, tM, tA, tB, tY)
        rest == DifferenceUpdate(files_changed, c1)
        c2a  == case2_helper(rest, tA, tB, Mod2Took1, tM, tY)
        c2b  == case2_helper(rest, tB, tA, Mod1Took2, tM, tY)
    IN  {[raised |-> FALSE, suspects |-> Sort(l1 \o l2 \o l3)] :
            l1 \in AppendOrders(c1), l2 \in AppendOrders(c2a),
            l3 \in AppendOrders(c2b)}



(***************************************************************************)
(* evil-base-diffdiff.py: split_diff                                       *)
(*                                                                         *)
(* A line is the sequence of its characters, its "\n" included, as         *)
(* data.splitlines(True) yields it.                                        *)
(***************************************************************************)
StartsWith(line, prefix) ==
    /\ Len(line) >= Len(prefix)
    /\ \A i \in 1..Len(prefix) : line[i] = prefix[i]

\* a file section's first line
LnDiff == <<"d", "i", "f", "f", " ", "-", "-", "g", "i", "t", " ", "a", "/", "f", " ", "b", "/", "f", "\n">>

\* an extended header the parser names
LnIndex == <<"i", "n", "d", "e", "x", " ", "1", ".", ".", "2", "\n">>

\* an extended header the parser does not name
LnNewFile == <<"n", "e", "w", " ", "f", "i", "l", "e", "\n">>

\* the old file's header
LnMinus == <<"-", "-", "-", " ", "a", "/", "f", "\n">>

\* the new file's header, for f
LnPlusF == <<"+", "+", "+", " ", "b", "/", "f", "\n">>

\* the new file's header, for g; as a hunk's line, the added line '++ b/g'
LnPlusG == <<"+", "+", "+", " ", "b", "/", "g", "\n">>

\* a hunk header
LnHunkHdr == <<"@", "@", " ", "-", "1", " ", "+", "1", " ", "@", "@", "\n">>

\* a context line
LnCtx == <<" ", "c", "\n">>

\* an added line
LnAdd == <<"+", "p", "\n">>

\* a removed line
LnDel == <<"-", "m", "\n">>

\* the marker of a missing final newline
LnNoNl == <<"\\", " ", "N", "o", " ", "n", "e", "w", "l", "i", "n", "e", "\n">>

\* the removed line '-- q'
LnDelDashes == <<"-", "-", "-", " ", "q", "\n">>

\* The branch of split_diff's if/elif chain a line takes.
LineClass(line) ==
    IF StartsWith(line, <<"d", "i", "f", "f", " ">>) THEN "diff"
    ELSE IF StartsWith(line, <<"-", "-", "-", " ">>) THEN "minus"
    ELSE IF StartsWith(line, <<"+", "+", "+", " ">>) THEN "plus"
    ELSE IF StartsWith(line, <<"i", "n", "d", "e", "x", " ">>) THEN "index"
    ELSE IF StartsWith(line, <<"@", "@", " ">>) THEN "hunkhdr"
    ELSE IF Len(line) > 0 /\ line[1] \in {"+", "-", " ", "\\"} THEN "content"
    ELSE "other"

\* line.rstrip('\n')
RECURSIVE RStripNewline(_)
RStripNewline(s) ==
    IF Len(s) > 0 /\ s[Len(s)] = "\n"
    THEN RStripNewline(SubSeq(s, 1, Len(s) - 1))
    ELSE s

\* filename = line[4:].rstrip('\n'), without a leading 'b/'
FilenameOf(line) ==
    LET name == RStripNewline(SubSeq(line, 5, Len(line)))
    IN  IF StartsWith(name, <<"b", "/">>)
        THEN SubSeq(name, 3, Len(name))
        ELSE name

\* diff[filename].append(hunk), when the hunk holds a line
Flush(d, fn, h) ==
    IF Len(h) > 0 THEN [d EXCEPT ![fn] = Append(@, h)] ELSE d

\* diff[filename] = []
SetEmpty(d, fn) ==
    [f \in DOMAIN d \cup {fn} |-> IF f = fn THEN <<>> ELSE d[f]]


\* The value of a local variable that is not bound yet.
Unbound == "unbound"

\* The lines of a hunk as git writes them; the last two are the removed
\* line "-- q" and the added line "++ b/g".
ContentLines == {LnCtx, LnAdd, LnDel, LnNoNl, LnDelDashes, LnPlusG}

\* Where git diff is in its output after one more line: before the first
\* file ("start"), in a file's extended headers ("hdr"), after its "--- "
\* line ("minus"), after its "+++ " line ("named"), in a hunk ("hunk");
\* with it the files and hunks git has written.
GitStep(st, line) ==
    CASE st.pos = "hunk" /\ line[1] \in {"+", "-", " ", "\\"} ->
            [st EXCEPT !.ghunk = Append(@, line)]
      [] st.pos = "hdr" /\ LineClass(line) = "minus" ->
            [st EXCEPT !.pos = "minus"]
      [] st.pos = "minus" /\ LineClass(line) = "plus" ->
            [st EXCEPT !.pos = "named",
                       !.gfile = FilenameOf(line),
                       !.gdiff = SetEmpty(@, FilenameOf(line))]
      [] LineClass(line) = "diff" ->
            [st EXCEPT !.pos = "hdr",
                       !.gdiff = Flush(@, st.gfile, st.ghunk),
                       !.ghunk = <<>>]
      [] LineClass(line) = "hunkhdr" ->
            [st EXCEPT !.pos = "hunk",
                       !.gdiff = Flush(@, st.gfile, st.ghunk),
                       !.ghunk = <<>>]
      [] OTHER -> st

RECURSIVE GitState(_)
GitState(d) ==
    IF d = <<>>
    THEN [pos |-> "start", gfile |-> <<>>, gdiff |-> <<>>, ghunk |-> <<>>]
    ELSE GitStep(GitState(SubSeq(d, 1, Len(d) - 1)), d[Len(d)])

\* The files and hunks git has written when its output ends.
GitWritten(d) ==
    LET st == GitState(d) IN Flush(st.gdiff, st.gfile, st.ghunk)

\* The lines git diff can write next: a file is named once, a hunk header
\* is followed by at least one line.
Offered(st) ==
    CASE st.pos = "start" -> {LnDiff}
      [] st.pos = "hdr"   -> {LnIndex, LnNewFile, LnMinus, LnDiff}
      [] st.pos = "minus" -> {l \in {LnPlusF, LnPlusG} :
                                 FilenameOf(l) \notin DOMAIN st.gdiff}
      [] st.pos = "named" -> {LnHunkHdr}
      [] st.pos = "hunk"  -> ContentLines \cup
                             (IF st.ghunk # <<>> THEN {LnHunkHdr, LnDiff}
                                                 ELSE {})

\* git diff's output can end here.
CanEnd(st) ==
    st.pos \in {"start", "hdr"} \/ (st.pos = "hunk" /\ st.ghunk # <<>>)

SplitIdle ==
    /\ data = <<>>
    /\ diff = <<>>
    /\ hunk = <<>>
    /\ filename = Unbound
    /\ sstate = "reading"

\* One turn of split_diff's loop on the locals st = (diff, hunk, filename),
\* for a line of the given branch; raised is set by the NameError of
\* diff[filename] when no file is named yet.
SplitFlush(st) ==
    IF Len(st.hunk) = 0 THEN st
    ELSE IF st.filename = Unbound THEN [st EXCEPT !.raised = TRUE]
    ELSE [st EXCEPT !.diff = Flush(@, st.filename, st.hunk), !.hunk = <<>>]

SplitStep(st, line) ==
    LET class == LineClass(line)
    IN  CASE class = "diff"    -> SplitFlush(st)
          [] class = "minus"   -> st
          [] class = "plus"    ->
                [st EXCEPT !.filename = FilenameOf(line),
                           !.diff = SetEmpty(@, FilenameOf(line)),
                           !.hunk = <<>>]
          [] class = "index"   -> st
          [] class = "hunkhdr" -> SplitFlush(st)
          [] class = "content" -> [st EXCEPT !.hunk = Append(@, line)]
          [] OTHER             -> st

SplitStart ==
    [diff |-> <<>>, hunk |-> <<>>, filename |-> Unbound, raised |-> FALSE]

\* split_diff(data) on a whole input: the loop from line i on, and what
\* the call returns, or that it raised.
RECURSIVE SplitLoop(_, _, _)
SplitLoop(st, lines, i) ==
    IF i > Len(lines) \/ st.raised THEN st
    ELSE SplitLoop(SplitStep(st, lines[i]), lines, i + 1)

SplitReturn(st) == IF st.raised THEN st ELSE SplitFlush(st)

split_diff(lines) == SplitReturn(SplitLoop(SplitStart, lines, 1))

\* The locals of the running call.
SplitLocals ==
    [diff |-> diff, hunk |-> hunk, filename |-> filename, raised |-> FALSE]

SetLocals(st) ==
    /\ diff' = st.diff
    /\ hunk' = st.hunk
    /\ filename' = st.filename

\* The loop takes the line git wrote next.
Read(line) ==
    /\ sstate = "reading"
    /\ Len(data) < MaxDiffLines
    /\ data' = Append(data, line)
    /\ LET st == SplitStep(SplitLocals, line)
       IN  /\ SetLocals(st)
           /\ sstate' = IF st.raised THEN "raised" ELSE "reading"
    /\ UNCHANGED notSplit

\* One action for each branch of the if/elif chain.
ReadDiffLine ==
    \E line \in Offered(GitState(data)) :
        LineClass(line) = "diff" /\ Read(line)

ReadMinusLine ==
    \E line \in Offered(GitState(data)) :
        LineClass(line) = "minus" /\ Read(line)

ReadPlusLine ==
    \E line \in Offered(GitState(data)) :
        LineClass(line) = "plus" /\ Read(line)

ReadIndexLine ==
    \E line \in Offered(GitState(data)) :
        LineClass(line) = "index" /\ Read(line)

ReadHunkHeader ==
    \E line \in Offered(GitState(data)) :
        LineClass(line) = "hunkhdr" /\ Read(line)

ReadContentLine ==
    \E line \in Offered(GitState(data)) :
        LineClass(line) = "content" /\ Read(line)

ReadOtherLine ==
    \E line \in Offered(GitState(data)) :
        LineClass(line) = "other" /\ Read(line)

\* The loop ends: the last hunk is flushed and diff is returned.
EndOfInput ==
    /\ sstate = "reading"
    /\ CanEnd(GitState(data))
    /\ LET st == SplitFlush(SplitLocals)
       IN  /\ SetLocals(st)
           /\ sstate' = IF st.raised THEN "raised" ELSE "done"
    /\ UNCHANGED data
    /\ UNCHANGED notSplit

NextSplit ==
    \/ ReadDiffLine
    \/ ReadMinusLine
    \/ ReadPlusLine
    \/ ReadIndexLine
    \/ ReadHunkHeader
    \/ ReadContentLine
    \/ ReadOtherLine
    \/ EndOfInput

(***************************************************************************)
(* evil-base-diffdiff.py: hunks, interdiffs and the scan                   *)
(***************************************************************************)

\* File names as split_diff yields them.
FileF == <<"f">>

FileG == <<"g">>

\* ''.join(h): the text of a hunk.
JoinFirstLine(h) == IF h = <<>> THEN <<>> ELSE h[1]

RECURSIVE Join(_)
Join(h) == IF h = <<>> THEN <<>> ELSE h[1] \o Join(Tail(h))

\* [h for h in own if ''.join(h) not in set(''.join(k) for k in other)]
UniqueHunks(own, other) ==
    LET texts == {Join(other[i]) : i \in 1..Len(other)}
    IN  SelectSeq(own, LAMBDA h : Join(h) \notin texts)

\* remove_common_hunks(d1, d2): the two dicts it returns, and the two it
\* was given as they are after the call (it copies, and assigns only to the
\* copies).
remove_common_hunks(a1, a2) ==
    LET common == DOMAIN a1 \cap DOMAIN a2
    IN  [d1new |-> [f \in DOMAIN a1 |->
                       IF f \in common THEN UniqueHunks(a1[f], a2[f])
                                       ELSE a1[f]],
         d2new |-> [f \in DOMAIN a2 |->
                       IF f \in common THEN UniqueHunks(a2[f], a1[f])
                                       ELSE a2[f]],
         d1 |-> a1,
         d2 |-> a2]

\* The separator assemble_hunks puts between two hunks.
LnSep == <<"@", "@", "\n">>

RECURSIVE assemble_hunks(_)
assemble_hunks(hunkseq) ==
    IF hunkseq = <<>> THEN <<>>
    ELSE IF Len(hunkseq) = 1 THEN hunkseq[1]
    ELSE hunkseq[1] \o <<LnSep>> \o assemble_hunks(Tail(hunkseq))

(***************************************************************************)
(* difflib.unified_diff(a, b, fromfile, tofile), n = 3, as the standard    *)
(* library documents it: SequenceMatcher without junk takes the longest    *)
(* matching block, the earliest in a and then in b among the longest, and  *)
(* recurses to its left and right; a gap between blocks is written as its  *)
(* lines of a with '-' and then its lines of b with '+'; each group keeps  *)
(* the lines within three of a change.                                     *)
(***************************************************************************)
\* The length of the longest block that starts at a[i] and b[j].
RECURSIVE RunLength(_, _, _, _, _, _)
RunLength(a, b, i, j, ahi, bhi) ==
    IF i < ahi /\ j < bhi /\ a[i] = b[j]
    THEN 1 + RunLength(a, b, i + 1, j + 1, ahi, bhi)
    ELSE 0

\* The matching blocks <<i, j, length>> of a[alo..ahi-1] and b[blo..bhi-1]
\* that no longer block with the same start holds.
Matches(a, b, alo, ahi, blo, bhi) ==
    {<<p[1], p[2], RunLength(a, b, p[1], p[2], ahi, bhi)>> :
        p \in {q \in (alo..(ahi - 1)) \X (blo..(bhi - 1)) : a[q[1]] = b[q[2]]}}

\* The longest of the blocks ms, the earliest in a and then in b.
Longest(ms) ==
    CHOOSE m \in ms : \A n \in ms :
        \/ m[3] > n[3]
        \/ m[3] = n[3] /\ m[1] < n[1]
        \/ m[3] = n[3] /\ m[1] = n[1] /\ m[2] <= n[2]

find_longest_match(a, b, alo, ahi, blo, bhi) ==
    Longest(Matches(a, b, alo, ahi, blo, bhi))

\* The lines a[lo..hi-1] under one tag.
Tagged(tag, s, lo, hi) ==
    [x \in 1..(hi - lo) |-> [tag |-> tag, line |-> s[lo + x - 1]]]

RECURSIVE EditScript(_, _, _, _, _, _)
EditScript(a, b, alo, ahi, blo, bhi) ==
    IF Matches(a, b, alo, ahi, blo, bhi) = {}
    THEN Tagged("-", a, alo, ahi) \o Tagged("+", b, blo, bhi)
    ELSE LET m == find_longest_match(a, b, alo, ahi, blo, bhi)
         IN  EditScript(a, b, alo, m[1], blo, m[2])
             \o Tagged(" ", a, m[1], m[1] + m[3])
             \o EditScript(a, b, m[1] + m[3], ahi, m[2] + m[3], bhi)

\* The decimal digits of a number.
Digit(n) == <<"0", "1", "2", "3", "4", "5", "6", "7", "8", "9">>[n + 1]

RECURSIVE Decimal(_)
Decimal(n) == IF n < 10 THEN <<Digit(n)>>
              ELSE Decimal(n \div 10) \o <<Digit(n % 10)>>

\* _format_range_unified(start, stop)
format_range_unified(start, stop) ==
    LET length == stop - start
    IN  IF length = 1 THEN Decimal(start + 1)
        ELSE Decimal(IF length = 0 THEN start ELSE start + 1)
             \o <<",">> \o Decimal(length)

\* How many of the script's first n entries are lines of a (of b).
CountA(script, n) == Cardinality({x \in 1..n : script[x].tag # "+"})

CountB(script, n) == Cardinality({x \in 1..n : script[x].tag # "-"})

\* The "@@ -r +r @@" line and the lines of the group script[lo..hi].
GroupLines(script, lo, hi) ==
    <<  <<"@", "@", " ", "-">>
        \o format_range_unified(CountA(script, lo - 1), CountA(script, hi))
        \o <<" ", "+">>
        \o format_range_unified(CountB(script, lo - 1), CountB(script, hi))
        \o <<" ", "@", "@", "\n">>  >>
    \o [x \in 1..(hi - lo + 1) |->
           <<script[lo + x - 1].tag>> \o script[lo + x - 1].line]

\* The lines of all groups from script[from] on.
RECURSIVE Groups(_, _, _)
Groups(script, kept, from) ==
    IF \A x \in from..Len(script) : x \notin kept THEN <<>>
    ELSE LET lo == Min({x \in from..Len(script) : x \in kept})
             hi == Max({y \in lo..Len(script) : \A z \in lo..y : z \in kept})
         IN  GroupLines(script, lo, hi) \o Groups(script, kept, hi + 1)

unified_diff(a, b, fromfile, tofile) ==
    LET script  == EditScript(a, b, 1, Len(a) + 1, 1, Len(b) + 1)
        changed == {x \in 1..Len(script) : script[x].tag # " "}
        kept    == {x \in 1..Len(script) :
                       \E c \in changed : x - c <= 3 /\ c - x <= 3}
    IN  IF changed = {} THEN <<>>
        ELSE <<  <<"-", "-", "-", " ">> \o fromfile \o <<"\n">>,
                 <<"+", "+", "+", " ">> \o tofile \o <<"\n">>  >>
             \o Groups(script, kept, 1)

\* line[:2] in ('--', '+-', '-+', '++')
SuspiciousPrefix(line) ==
    Len(line) >= 2 /\ line[1] \in {"-", "+"} /\ line[2] \in {"-", "+"}

\* any_suspicious_lines(diff): the loop from line i on, in_hunk as given.
RECURSIVE ScanFrom(_, _, _)
ScanFrom(lines, i, in_hunk) ==
    IF i > Len(lines) THEN FALSE
    ELSE IF StartsWith(lines[i], <<"@", "@", " ">>)
         THEN ScanFrom(lines, i + 1, TRUE)
    ELSE IF ~in_hunk THEN ScanFrom(lines, i + 1, in_hunk)
    ELSE IF SuspiciousPrefix(lines[i]) THEN TRUE
    ELSE ScanFrom(lines, i + 1, in_hunk)

\* any_suspicious_lines with the "in_hunk = True" of its loop left out.
any_suspicious_linesStuck(lines) ==
    LET RECURSIVE scan(_)
        scan(i) ==
            IF i > Len(lines) THEN FALSE
            ELSE IF StartsWith(lines[i], <<"@", "@", " ">>) THEN scan(i + 1)
            ELSE scan(i + 1)
    IN  scan(1)

any_suspicious_linesNoPreamble(lines) == ScanFrom(lines, 1, TRUE)

any_suspicious_lines(lines) == ScanFrom(lines, 1, FALSE)

\* dict.get(f, [])
GetOrEmpty(d, f) == IF f \in DOMAIN d THEN d[f] ELSE <<>>

\* The interdiff find_suspicious_hunks computes for f.
Interdiff(post, pre, f) ==
    unified_diff(assemble_hunks(GetOrEmpty(pre, f)),
                 assemble_hunks(GetOrEmpty(post, f)), f, f)

\* find_suspicious_hunks(dxM, dYx), for a dYx that holds a first element.
find_suspicious_hunks(post, pres) ==
    LET files == DOMAIN post \cup DOMAIN pres[1]
        hits  == {f \in files :
                     any_suspicious_lines(Interdiff(post, pres[1], f))}
    IN  [f \in hits |-> Interdiff(post, pres[1], f)]

\* A second added line, one character away from LnAdd.
LnAdd2 == <<"+", "q", "\n">>

\* Hunks as split_diff yields them: HkB differs from HkA in one character,
\* HkC from HkA in a context line.
HkA == <<LnCtx, LnDel, LnAdd>>

HkB == <<LnCtx, LnDel, LnAdd2>>

HkC == <<LnCtx, LnDel, LnAdd, LnCtx>>

HunkPool == {HkA, HkB, HkC}

\* A dict of at most the files f and g.
MkDict(hasF, hunksF, hasG, hunksG) ==
    [p \in (IF hasF THEN {FileF} ELSE {}) \cup (IF hasG THEN {FileG} ELSE {})
        |-> IF p = FileF THEN hunksF ELSE hunksG]

\* The diffs the calls are given: f with up to MaxHunks hunks, g with at
\* most one, either file absent.
HunkDicts ==
    {MkDict(hasF, hunksF, hasG, hunksG) :
        hasF \in BOOLEAN, hunksF \in SeqsUpTo(HunkPool, MaxHunks),
        hasG \in BOOLEAN, hunksG \in SeqsUpTo(HunkPool, 1)}

\* The same with at most one hunk for each file.
OneHunkDicts ==
    {MkDict(hasF, hunksF, hasG, hunksG) :
        hasF \in BOOLEAN, hunksF \in SeqsUpTo(HunkPool, 1),
        hasG \in BOOLEAN, hunksG \in SeqsUpTo(HunkPool, 1)}

\* the interdiff's first line
IdMinusHdr == <<"-", "-", "-", " ", "f", "\n">>

\* the interdiff's second line
IdPlusHdr == <<"+", "+", "+", " ", "f", "\n">>

\* the header of a group of the interdiff
IdHunkHdr == <<"@", "@", " ", "-", "1", ",", "2", " ", "+", "1", ",", "2", " ", "@", "@", "\n">>

\* a '+' line of both hunk streams
IdCtxAdd == <<" ", "+", "p", "\n">>

\* a '-' line only the first hunk stream has
IdDelDel == <<"-", "-", "m", "\n">>

\* a '-' line only the second hunk stream has
IdAddDel == <<"+", "-", "m", "\n">>

\* a '+' line only the first hunk stream has
IdDelAdd == <<"-", "+", "p", "\n">>

\* a '+' line only the second hunk stream has
IdAddAdd == <<"+", "+", "p", "\n">>

\* a context line only the first hunk stream has
IdDelCtx == <<"-", " ", "c", "\n">>

\* a hunk separator only the first hunk stream has
IdDelSep == <<"-", "@", "@", "\n">>

\* The lines of the interdiffs any_suspicious_lines is given.
ScanPool == {IdMinusHdr, IdPlusHdr, IdHunkHdr, IdCtxAdd, IdDelDel, IdAddDel,
             IdDelAdd, IdAddAdd, IdDelCtx, IdDelSep}

CommonIdle ==
    /\ d1 = <<>>
    /\ d2 = <<>>
    /\ d1new = <<>>
    /\ d2new = <<>>
    /\ cstate = "idle"

\* remove_common_hunks is called on two diffs.
CommonCalled ==
    /\ d1 \in HunkDicts
    /\ d2 \in HunkDicts
    /\ d1new = <<>>
    /\ d2new = <<>>
    /\ cstate = "called"

\* The call runs and returns.
RemoveCommonHunksCall ==
    /\ cstate = "called"
    /\ LET r == remove_common_hunks(d1, d2)
       IN  /\ d1' = r.d1
           /\ d2' = r.d2
           /\ d1new' = r.d1new
           /\ d2new' = r.d2new
    /\ cstate' = "returned"
    /\ UNCHANGED notCommon

ScanIdle ==
    /\ delta = <<>>
    /\ flagged = FALSE
    /\ dxM = <<>>
    /\ dYx = <<>>
    /\ found = <<>>
    /\ fstate = "idle"

\* One call any_suspicious_lines(delta).
AnySuspiciousLinesCall ==
    /\ fstate = "idle"
    /\ \E lines \in SeqsUpTo(ScanPool, MaxScanLen) :
        /\ delta' = lines
        /\ flagged' = any_suspicious_lines(lines)
    /\ fstate' = "scanned"
    /\ UNCHANGED <<dxM, dYx, found>>
    /\ UNCHANGED notScan

\* One call find_suspicious_hunks(dxM, dYx) with the diffs of one base.
FindSuspiciousHunksCall ==
    /\ fstate = "idle"
    /\ \E x \in HunkDicts, y \in OneHunkDicts :
        /\ dxM' = x
        /\ dYx' = <<y>>
        /\ found' = find_suspicious_hunks(x, <<y>>)
    /\ fstate' = "found"
    /\ UNCHANGED <<delta, flagged>>
    /\ UNCHANGED notScan

(***************************************************************************)
(* evil-base-diffdiff.py: get_diff and detect_evilness                     *)
(*                                                                         *)
(* The commits hold one file, f, of FileLen lines.  Line i of a commit is  *)
(* one of three texts of its own, "c<i>", "a<i>" or "b<i>", so a line      *)
(* matches across commits only at its own place and every line diff finds  *)
(* the same changes.                                                       *)
(***************************************************************************)
Variants == {"c", "a", "b"}

\* A commit's file: the variant of each line.
Files == [1..FileLen -> Variants]

\* The merge base's file.
BaseFile == [i \in 1..FileLen |-> "c"]

\* The lines of a file.
Content(file) == [i \in 1..FileLen |-> <<file[i], Digit(i), "\n">>]

\* The output of git diff -M cmt1 cmt2 for the files of the two commits:
\* nothing when they are equal, else f's headers and its hunks, each with
\* three lines of context.
git_diff(file1, file2) ==
    LET a       == Content(file1)
        b       == Content(file2)
        script  == EditScript(a, b, 1, Len(a) + 1, 1, Len(b) + 1)
        changed == {x \in 1..Len(script) : script[x].tag # " "}
        kept    == {x \in 1..Len(script) :
                       \E c \in changed : x - c <= 3 /\ c - x <= 3}
    IN  IF changed = {} THEN <<>>
        ELSE <<LnDiff, LnIndex, LnMinus, LnPlusF>> \o Groups(script, kept, 1)

\* get_diff(cmt1, cmt2)
get_diff(file1, file2) == split_diff(git_diff(file1, file2)).diff

\* detect_evilness(M, A, B, bases) of evil-base-diffdiff.py on the files of
\* the commits: the two dicts it prints.  With no base dYx[0] raises
\* IndexError in find_suspicious_hunks.
detect_evilness_diff(M, A, B, bases) ==
    LET dAM == get_diff(A, M)
        dBM == get_diff(B, M)
        rm  == [i \in 1..Len(bases) |->
                   remove_common_hunks(get_diff(bases[i], A),
                                       get_diff(bases[i], B))]
        dYA == [i \in 1..Len(bases) |-> rm[i].d1new]
        dYB == [i \in 1..Len(bases) |-> rm[i].d2new]
    IN  IF Len(bases) = 0
        THEN [raised |-> TRUE, idiff_A |-> <<>>, idiff_B |-> <<>>]
        ELSE [raised |-> FALSE,
              idiff_A |-> find_suspicious_hunks(dAM, dYB),
              idiff_B |-> find_suspicious_hunks(dBM, dYA)]

HunkIdle ==
    /\ fileA = <<>>
    /\ fileB = <<>>
    /\ fileM = <<>>
    /\ idiff_A = <<>>
    /\ idiff_B = <<>>
    /\ estate = "idle"

\* detect_evilness is called on a merge M of A and B.
HunkCalled ==
    /\ fileA \in Files
    /\ fileB \in Files
    /\ fileM \in Files
    /\ idiff_A = <<>>
    /\ idiff_B = <<>>
    /\ estate = "called"

\* The call detect_evilness(M, A, B, [Y]), with the single base Y, runs.
DetectEvilnessDiffCall ==
    /\ estate = "called"
    /\ \E r \in {detect_evilness_diff(fileM, fileA, fileB, <<BaseFile>>)} :
        /\ idiff_A' = r.idiff_A
        /\ idiff_B' = r.idiff_B
        /\ estate' = IF r.raised THEN "raised" ELSE "returned"
    /\ UNCHANGED <<fileA, fileB, fileM>>
    /\ UNCHANGED notHunk

(***************************************************************************)
(* The command line of both programs: process_args and the main block      *)
(*                                                                         *)
(* The repository the programs run in holds the file f alone; its commits  *)
(* differ in f's first line.                                               *)
(*                                                                         *)
(*     y1 --- a1 --- m1 (a1, b1) ---.         r0   (a root of its own)     *)
(*       \       X                   m2 (m1, m3)                           *)
(*        `-- b1 --- m3 (b1, a1) ---'         m0 (a1, r0)   m4 (a1, y1)    *)
(***************************************************************************)
Tools == {"treediff", "diffdiff"}

Commits == {"y1", "r0", "a1", "b1", "m1", "m3", "m2", "m0", "m4"}

\* The parents git records for each commit.
Parents ==
    [c \in Commits |->
        CASE c \in {"a1", "b1"} -> <<"y1">>
          [] c = "m1" -> <<"a1", "b1">>
          [] c = "m3" -> <<"b1", "a1">>
          [] c = "m2" -> <<"m1", "m3">>
          [] c = "m0" -> <<"a1", "r0">>
          [] c = "m4" -> <<"a1", "y1">>
          [] OTHER -> <<>>]

\* The variant of f's first line in each commit: a1 and b1 edit the line
\* differently, m1 and m0 keep b1's and a1's edit, m2 and m3 a1's.
FirstLine ==
    [c \in Commits |->
        CASE c \in {"y1", "r0"} -> "c"
          [] c \in {"a1", "m3", "m2", "m0", "m4"} -> "a"
          [] OTHER -> "b"]

\* The content of f in a commit.
FileOf(c) == [i \in 1..FileLen |-> IF i = 1 THEN FirstLine[c] ELSE "c"]

\* The blob hash of f for each variant of its first line.
BlobOf == [v \in Variants |-> CASE v = "c" -> "h1" [] v = "a" -> "h2" [] OTHER -> "h3"]

\* dict_ls_tree(c)[0]
TreeOf(c) == [p \in {"f"} |-> BlobOf[FirstLine[c]]]

\* What git merge-base --all cmt1 cmt2 prints: m1 and m3 are a criss-cross
\* and have two merge bases, a1 and r0 share no history.
MergeBases(cmt1, cmt2) ==
    CASE {cmt1, cmt2} = {"a1", "b1"} -> <<"y1">>
      [] {cmt1, cmt2} = {"a1", "y1"} -> <<"y1">>
      [] {cmt1, cmt2} = {"m1", "m3"} -> <<"a1", "b1">>
      [] OTHER -> <<>>

\* The result of a call: the exception it raises, "" for none, or its value.
Raises(exception) == [raised |-> exception, value |-> <<>>]

Returns(value) == [raised |-> "", value |-> value]

\* get_parents(commit), the same in both programs.  git rev-parse commit^1
\* commit^2 exits with status 128 when the commit lacks one of the two
\* parents, and check_output raises CalledProcessError; process_args
\* expects the ValueError of the unpacking, which a rev-parse that exits
\* with status 0 after printing fewer than two names gives.
get_parents(commit) ==
    IF Len(Parents[commit]) >= 2
    THEN {Returns(SubSeq(Parents[commit], 1, 2))}
    ELSE {Raises("CalledProcessError"), Raises("ValueError")}

\* get_merge_bases(cmt1, cmt2) of evil-base-treediff.py: git merge-base
\* exits with status 1 when there is no base, and check_output raises.
get_merge_bases_treediff(cmt1, cmt2) ==
    IF MergeBases(cmt1, cmt2) = <<>>
    THEN Raises("CalledProcessError")
    ELSE Returns(MergeBases(cmt1, cmt2))

\* get_merge_bases(cmt1, cmt2) of evil-base-diffdiff.py: status 1 is [].
get_merge_bases_diffdiff(cmt1, cmt2) == Returns(MergeBases(cmt1, cmt2))

\* What a call of process_args does: it returns, it calls sys.exit(1), or
\* it raises an exception nobody catches; with what it printed before.
Outcome(kind, out, err) == [kind |-> kind, out |-> out, err |-> err]

\* parser.print_usage()
UsageText ==
    [what |-> "usage", merge |-> "", bases |-> <<>>, suspects |-> <<>>,
     idiff_A |-> <<>>, idiff_B |-> <<>>]

\* The print statements of process_args in evil-base-treediff.py.
SuspectsText(merge, suspects_) ==
    [what |-> "suspicious merge in files", merge |-> merge, bases |-> <<>>,
     suspects |-> suspects_, idiff_A |-> <<>>, idiff_B |-> <<>>]

\* The print statements of detect_evilness in evil-base-diffdiff.py.
HunksText(merge, bases, idiffA, idiffB) ==
    [what |-> "suspicious hunks", merge |-> merge, bases |-> bases,
     suspects |-> <<>>, idiff_A |-> idiffA, idiff_B |-> idiffB]

\* detect_evilness and the printing of its result, in evil-base-treediff.py.
RunTreediff(merge, parent1, parent2, bases) ==
    {IF r.raised THEN Outcome("raise", <<>>, <<"ValueError">>)
     ELSE IF r.suspects # <<>>
          THEN Outcome("return", <<SuspectsText(merge, r.suspects)>>, <<>>)
     ELSE Outcome("return", <<>>, <<>>) :
        r \in detect_evilness(TreeOf(merge), TreeOf(parent1), TreeOf(parent2),
                              [i \in 1..Len(bases) |-> TreeOf(bases[i])])}

\* detect_evilness in evil-base-diffdiff.py: it prints the two interdiffs
\* by itself and returns None, so that process_args prints nothing more.
RunDiffdiff(merge, parent1, parent2, bases) ==
    {IF r.raised THEN Outcome("raise", <<>>, <<"IndexError">>)
     ELSE IF DOMAIN r.idiff_A # {} \/ DOMAIN r.idiff_B # {}
          THEN Outcome("return",
                       <<HunksText(merge, bases, r.idiff_A, r.idiff_B)>>, <<>>)
     ELSE Outcome("return", <<>>, <<>>) :
        r \in {detect_evilness_diff(FileOf(merge), FileOf(parent1),
                                    FileOf(parent2),
                                    [i \in 1..Len(bases) |-> FileOf(bases[i])])}}

\* process_args from "if not bases:" on.
Analyse(tool_, merge, parent1, parent2, bases) ==
    LET mb == IF bases # <<>> THEN Returns(bases)
              ELSE IF tool_ = "treediff"
                   THEN get_merge_bases_treediff(parent1, parent2)
              ELSE get_merge_bases_diffdiff(parent1, parent2)
    IN  IF mb.raised # "" THEN {Outcome("raise", <<>>, <<mb.raised>>)}
        ELSE IF tool_ = "treediff"
             THEN RunTreediff(merge, parent1, parent2, mb.value)
        ELSE RunDiffdiff(merge, parent1, parent2, mb.value)

\* del args[3] when args[3] == '--'
DropDashes(args) ==
    IF Len(args) > 3 /\ args[4] = "--"
    THEN SubSeq(args, 1, 3) \o SubSeq(args, 5, Len(args))
    ELSE args

\* process_args(args, unhandled_fatal) of the program tool_: the outcomes
\* the call can have.
process_args(tool_, args0, unhandled_fatal) ==
    LET args  == DropDashes(args0)
        merge == args[1]
        bases == IF Len(args) > 3 THEN SubSeq(args, 4, Len(args)) ELSE <<>>
        ps    == IF Len(args) > 2 THEN {Returns(<<args[2], args[3]>>)}
                 ELSE get_parents(merge)
    IN  IF Len(args) < 1
        THEN IF ~unhandled_fatal THEN {Outcome("return", <<>>, <<>>)}
             ELSE {Outcome("exit", <<UsageText>>, <<>>)}
        ELSE UNION {
            IF p.raised = "ValueError"
            THEN IF ~unhandled_fatal THEN {Outcome("return", <<>>, <<>>)}
                 ELSE {Outcome("exit", <<>>,
                               <<"does not appear to be a merge">>)}
            ELSE IF p.raised # ""
                 THEN {Outcome("raise", <<>>, <<p.raised>>)}
            ELSE Analyse(tool_, merge, p.value[1], p.value[2], bases) :
                p \in ps}

\* The argument lists the programs are given, one per input line in batch
\* mode: line.strip().split() of the line.
ArgPool ==
    { <<>>,
      <<"a1">>,
      <<"m1">>,
      <<"m2">>,
      <<"m0">>,
      <<"m4">>,
      <<"m1", "a1">>,
      <<"m1", "a1", "b1", "--", "y1">>,
      <<"m2", "m1", "m3", "b1">> }

\* The lines of an output, each with the number of the input line that
\* made process_args print it.
Numbered(out, n) == [i \in 1..Len(out) |-> <<n, out[i]>>]

BatchIdle ==
    /\ tool = ""
    /\ options_stdin = FALSE
    /\ input = <<>>
    /\ lineno = 0
    /\ stdout = <<>>
    /\ stderr = <<>>
    /\ exit_status = 0
    /\ bstate = "idle"

\* One of the programs is started: with --stdin and the lines of its
\* standard input, or with one argument list.
BatchStarted ==
    /\ tool \in Tools
    /\ options_stdin \in BOOLEAN
    /\ input \in IF options_stdin THEN SeqsUpTo(ArgPool, MaxLines)
                 ELSE [1..1 -> ArgPool]
    /\ lineno = 1
    /\ stdout = <<>>
    /\ stderr = <<>>
    /\ exit_status = 0
    /\ bstate = "running"

\* for line in sys.stdin: process_args(args, unhandled_fatal=False) returns.
BatchLineReturns ==
    /\ bstate = "running" /\ options_stdin /\ lineno <= Len(input)
    /\ \E r \in process_args(tool, input[lineno], FALSE) :
        /\ r.kind = "return"
        /\ stdout' = stdout \o Numbered(r.out, lineno)
        /\ stderr' = stderr \o r.err
    /\ lineno' = lineno + 1
    /\ UNCHANGED <<tool, options_stdin, input, exit_status, bstate>>
    /\ UNCHANGED notBatch

\* ... or raises an exception: Python prints the traceback and exits with
\* status 1, and the lines left are not read.  (With unhandled_fatal=False
\* process_args has no path to sys.exit.)
BatchLineRaises ==
    /\ bstate = "running" /\ options_stdin /\ lineno <= Len(input)
    /\ \E r \in process_args(tool, input[lineno], FALSE) :
        /\ r.kind = "raise"
        /\ stdout' = stdout \o Numbered(r.out, lineno)
        /\ stderr' = stderr \o r.err
    /\ exit_status' = 1
    /\ bstate' = "exited"
    /\ UNCHANGED <<tool, options_stdin, input, lineno>>
    /\ UNCHANGED notBatch

\* The loop over sys.stdin ends and with it the program.
BatchEndOfInput ==
    /\ bstate = "running" /\ options_stdin /\ lineno > Len(input)
    /\ exit_status' = 0
    /\ bstate' = "exited"
    /\ UNCHANGED <<tool, options_stdin, input, lineno, stdout, stderr>>
    /\ UNCHANGED notBatch

\* Without --stdin: process_args(args) returns, and the program ends.
SingleReturns ==
    /\ bstate = "running" /\ ~options_stdin
    /\ \E r \in process_args(tool, input[1], TRUE) :
        /\ r.kind = "return"
        /\ stdout' = stdout \o Numbered(r.out, 1)
        /\ stderr' = stderr \o r.err
    /\ exit_status' = 0
    /\ bstate' = "exited"
    /\ UNCHANGED <<tool, options_stdin, input, lineno>>
    /\ UNCHANGED notBatch

\* ... or calls sys.exit(1), after the usage or after die's message.
SingleExits ==
    /\ bstate = "running" /\ ~options_stdin
    /\ \E r \in process_args(tool, input[1], TRUE) :
        /\ r.kind = "exit"
        /\ stdout' = stdout \o Numbered(r.out, 1)
        /\ stderr' = stderr \o r.err
    /\ exit_status' = 1
    /\ bstate' = "exited"
    /\ UNCHANGED <<tool, options_stdin, input, lineno>>
    /\ UNCHANGED notBatch

\* ... or raises an exception: traceback and status 1.
SingleRaises ==
    /\ bstate = "running" /\ ~options_stdin
    /\ \E r \in process_args(tool, input[1], TRUE) :
        /\ r.kind = "raise"
        /\ stdout' = stdout \o Numbered(r.out, 1)
        /\ stderr' = stderr \o r.err
    /\ exit_status' = 1
    /\ bstate' = "exited"
    /\ UNCHANGED <<tool, options_stdin, input, lineno>>
    /\ UNCHANGED notBatch

(***************************************************************************)
(* Specifications                                                          *)
(***************************************************************************)
TreeIdle ==
    /\ treeM = << >>
    /\ treeA = << >>
    /\ treeB = << >>
    /\ treeY = << >>
    /\ suspects = << >>
    /\ tstate = "idle"

\* One call detect_evilness(M, A, B, bases).
DetectEvilnessCall ==
    /\ tstate = "idle"
    /\ \E tM \in Trees, tA \in Trees, tB \in Trees,
          tY \in SeqsUpTo(Trees, MaxBases) :
          \E r \in detect_evilness(tM, tA, tB, tY) :
              /\ treeM' = tM
              /\ treeA' = tA
              /\ treeB' = tB
              /\ treeY' = tY
              /\ suspects' = r.suspects
              /\ tstate' = IF r.raised THEN "raised" ELSE "returned"
    /\ UNCHANGED notTree

InitTree == TreeIdle /\ SplitIdle /\ CommonIdle /\ ScanIdle /\ HunkIdle /\ BatchIdle

NextTree == DetectEvilnessCall

SpecTree == InitTree /\ [][NextTree]_vars

InitSplit == SplitIdle /\ TreeIdle /\ CommonIdle /\ ScanIdle /\ HunkIdle /\ BatchIdle

SpecSplit == InitSplit /\ [][NextSplit]_vars

InitCommon == CommonCalled /\ TreeIdle /\ SplitIdle /\ ScanIdle /\ HunkIdle /\ BatchIdle

NextCommon == RemoveCommonHunksCall

SpecCommon == InitCommon /\ [][NextCommon]_vars

InitScan == ScanIdle /\ TreeIdle /\ SplitIdle /\ CommonIdle /\ HunkIdle /\ BatchIdle

NextScan ==
    \/ AnySuspiciousLinesCall
    \/ FindSuspiciousHunksCall

SpecScan == InitScan /\ [][NextScan]_vars

InitHunk == HunkCalled /\ TreeIdle /\ SplitIdle /\ CommonIdle /\ ScanIdle /\ BatchIdle

NextHunk == DetectEvilnessDiffCall

SpecHunk == InitHunk /\ [][NextHunk]_vars

InitBatch ==
    BatchStarted /\ TreeIdle /\ SplitIdle /\ CommonIdle /\ ScanIdle /\ HunkIdle

NextBatch ==
    \/ BatchLineReturns
    \/ BatchLineRaises
    \/ BatchEndOfInput
    \/ SingleReturns
    \/ SingleExits
    \/ SingleRaises

SpecBatch == InitBatch /\ [][NextBatch]_vars

(***************************************************************************)
(* Properties of the tree detector                                         *)
(***************************************************************************)
FilesMAB == DOMAIN treeM \cup DOMAIN treeA \cup DOMAIN treeB

Changed(p) ==
    Lookup(treeA, p) # Lookup(treeM, p) \/ Lookup(treeB, p) # Lookup(treeM, p)

\* side differs at p from p's hash in every base
Diverged(side, p) ==
    \A i \in 1..Len(treeY) : Lookup(side, p) # Lookup(treeY[i], p)

Reported(p, reason) == \E i \in 1..Len(suspects) : suspects[i] = <<p, reason>>

\* C1: with a non-empty base set the call returns, and a path of M, A or B
\* is reported "modified in both, took ^1" exactly when it is changed, A and
\* B each differ from every base, and M has A's hash; "took ^2" exactly when
\* the same holds with M having B's hash.
C1_Case1Exact ==
    (tstate # "idle" /\ Len(treeY) > 0) =>
        /\ tstate = "returned"
        /\ \A p \in FilesMAB :
            /\ Reported(p, BothTook1) <=>
                 /\ Changed(p)
                 /\ Diverged(treeA, p)
                 /\ Diverged(treeB, p)
                 /\ Lookup(treeM, p) = Lookup(treeA, p)
            /\ Reported(p, BothTook2) <=>
                 /\ Changed(p)
                 /\ Diverged(treeA, p)
                 /\ Diverged(treeB, p)
                 /\ Lookup(treeM, p) = Lookup(treeB, p)

\* Two bases; one path is reported by Case 1, and on the other path M keeps
\* A against a differing B, but the first base has A's hash there while the
\* second base has not, and Case 1 stays silent.
C1_Witness ==
    /\ tstate = "returned"
    /\ Len(treeY) = 2
    /\ Reported("f", BothTook1)
    /\ Lookup(treeM, "g") = Lookup(treeA, "g")
    /\ Lookup(treeB, "g") # Lookup(treeM, "g")
    /\ Diverged(treeB, "g")
    /\ Lookup(treeY[1], "g") = Lookup(treeA, "g")
    /\ Lookup(treeY[2], "g") # Lookup(treeA, "g")
    /\ ~Reported("g", BothTook1)

\* C2: when the call returns, "modified in ^2, took ^1" is reported for p
\* only if M has A's hash and B differs from every base, and every changed
\* path Case 1 did not report that satisfies this is reported so; the same
\* with A and B exchanged for "modified in ^1, took ^2".  With a single base
\* that B equals and A differs from, and M equal to B, p is reported
\* "modified in ^1, took ^2".
C2_Case2Exact ==
    tstate = "returned" =>
        \A p \in Paths :
            LET byCase1 == Reported(p, BothTook1) \/ Reported(p, BothTook2)
                keptA   == /\ Lookup(treeA, p) = Lookup(treeM, p)
                           /\ Diverged(treeB, p)
                keptB   == /\ Lookup(treeB, p) = Lookup(treeM, p)
                           /\ Diverged(treeA, p)
            IN  /\ Reported(p, Mod2Took1) => keptA
                /\ Reported(p, Mod1Took2) => keptB
                /\ (p \in FilesMAB /\ Changed(p) /\ ~byCase1 /\ keptA)
                       => Reported(p, Mod2Took1)
                /\ (p \in FilesMAB /\ Changed(p) /\ ~byCase1 /\ keptB)
                       => Reported(p, Mod1Took2)
                /\ ( /\ Len(treeY) = 1
                     /\ Lookup(treeB, p) = Lookup(treeY[1], p)
                     /\ Lookup(treeA, p) # Lookup(treeY[1], p)
                     /\ Lookup(treeM, p) = Lookup(treeB, p) )
                       => Reported(p, Mod1Took2)

\* The scenario of C2: one base, B unchanged from it, A changed, M equal to B.
C2_Witness ==
    /\ tstate = "returned"
    /\ Len(treeY) = 1
    /\ Lookup(treeB, "g") = Lookup(treeY[1], "g")
    /\ Lookup(treeA, "g") # Lookup(treeY[1], "g")
    /\ Lookup(treeM, "g") = Lookup(treeB, "g")
    /\ Reported("g", Mod1Took2)
    /\ Reported("f", Mod2Took1)

\* C3 (as claimed): with an empty base set the call completes and every
\* file that differs from M in both parents is reported by Case 1.
C3_EmptyBasesReported ==
    (tstate # "idle" /\ Len(treeY) = 0) =>
        /\ tstate = "returned"
        /\ \A p \in FilesMAB :
            ( /\ Lookup(treeA, p) # Lookup(treeM, p)
              /\ Lookup(treeB, p) # Lookup(treeM, p) )
                => (Reported(p, BothTook1) \/ Reported(p, BothTook2))

\* C7: the list detect_evilness returns is sorted by path and no path
\* occurs in two of its entries.
C7_SortedUnique ==
    tstate = "returned" =>
        \A i \in 1..Len(suspects) : \A j \in 1..Len(suspects) :
            i < j => PathRank[suspects[i][1]] < PathRank[suspects[j][1]]

\* Both paths are reported, one by Case 1 and one by Case 2.
C7_Witness ==
    /\ tstate = "returned"
    /\ Len(suspects) = 2
    /\ suspects[1][2] \in {BothTook1, BothTook2}
    /\ suspects[2][2] \in {Mod2Took1, Mod1Took2}

(***************************************************************************)
(* Properties of split_diff                                                *)
(***************************************************************************)

\* C8 (as claimed): when split_diff returns, its result holds every file
\* git named, each with the hunks git wrote for it in order, every hunk
\* with exactly the lines git wrote in it.
C8_SplitKeepsEveryLine ==
    sstate = "done" => diff = GitWritten(data)

(***************************************************************************)
(* Properties of remove_common_hunks                                       *)
(***************************************************************************)

\* The characters of a hunk's lines one after the other.
HunkText(h) ==
    LET RECURSIVE upTo(_)
        upTo(n) == IF n = 0 THEN <<>> ELSE upTo(n - 1) \o h[n]
    IN  upTo(Len(h))

\* The hunks of own, in order, whose text no hunk of other has.
OwnOnly(own, other) ==
    LET RECURSIVE from(_)
        from(i) ==
            IF i > Len(own) THEN <<>>
            ELSE (IF \E j \in 1..Len(other) :
                         HunkText(own[i]) = HunkText(other[j])
                  THEN <<>> ELSE <<own[i]>>) \o from(i + 1)
    IN  from(1)

\* C9: a call of remove_common_hunks leaves d1 and d2 as they were and
\* returns two dicts over the files of d1 and of d2; for a file of both,
\* each holds, in order, exactly the hunks of its own input whose text is
\* the text of no hunk of the other input for that file; for a file of one
\* input alone it holds all its hunks.
C9_RemovesExactMatchesOnly ==
    [][ (cstate = "called" /\ cstate' = "returned") =>
           /\ d1' = d1
           /\ d2' = d2
           /\ DOMAIN d1new' = DOMAIN d1
           /\ DOMAIN d2new' = DOMAIN d2
           /\ \A f \in DOMAIN d1 :
                d1new'[f] = IF f \in DOMAIN d2 THEN OwnOnly(d1[f], d2[f])
                                               ELSE d1[f]
           /\ \A f \in DOMAIN d2 :
                d2new'[f] = IF f \in DOMAIN d1 THEN OwnOnly(d2[f], d1[f])
                                               ELSE d2[f]
      ]_vars

\* f is in both diffs: one hunk of d1 is also in d2 and is removed from
\* both, HkB stays in d1 though d2 holds HkA, one character away; g is in
\* d1 alone and keeps its hunk.
C9_Witness ==
    /\ cstate = "returned"
    /\ FileF \in DOMAIN d1 /\ FileF \in DOMAIN d2
    /\ d1[FileF] = <<HkC, HkB>>
    /\ d2[FileF] = <<HkA, HkC>>
    /\ d1new[FileF] = <<HkB>>
    /\ d2new[FileF] = <<HkA>>
    /\ FileG \in DOMAIN d1 /\ FileG \notin DOMAIN d2
    /\ d1new[FileG] = <<HkA>>

(***************************************************************************)
(* Properties of the scan                                                  *)
(***************************************************************************)

\* Some line after the first "@@ " line, not itself a "@@ " line, starts
\* with "--", "+-", "-+" or "++".
SuspiciousAfterMarker(lines) ==
    \E i \in 1..Len(lines) :
        /\ \E j \in 1..(i - 1) : StartsWith(lines[j], <<"@", "@", " ">>)
        /\ ~StartsWith(lines[i], <<"@", "@", " ">>)
        /\ \/ StartsWith(lines[i], <<"-", "-">>)
           \/ StartsWith(lines[i], <<"+", "-">>)
           \/ StartsWith(lines[i], <<"-", "+">>)
           \/ StartsWith(lines[i], <<"+", "+">>)

\* C10: any_suspicious_lines returns true exactly for an interdiff with a
\* line after its first "@@ " line that starts with two signs, and
\* find_suspicious_hunks returns a file exactly when its interdiff is such,
\* with that whole interdiff as its value.
C10_ScanAfterMarker ==
    /\ fstate = "scanned" => (flagged <=> SuspiciousAfterMarker(delta))
    /\ fstate = "found" =>
         \A f \in {FileF, FileG} :
            LET idf == Interdiff(dxM, dYx[1], f)
            IN  /\ f \in DOMAIN found <=> SuspiciousAfterMarker(idf)
                /\ f \in DOMAIN found => found[f] = idf

\* f is reported with its interdiff; g has an interdiff too, whose "--- "
\* and "+++ " lines start with two signs, and is not reported.
C10_Witness ==
    /\ fstate = "found"
    /\ FileF \in DOMAIN found
    /\ Len(found[FileF]) > 3
    /\ FileG \notin DOMAIN found
    /\ Len(Interdiff(dxM, dYx[1], FileG)) > 3

(***************************************************************************)
(* Properties of the hunk detector                                         *)
(***************************************************************************)

\* The interdiff holds a line that starts with "-+" or "+-".
HasMixedSigns(lines) ==
    \E i \in 1..Len(lines) :
        \/ StartsWith(lines[i], <<"-", "+">>)
        \/ StartsWith(lines[i], <<"+", "-">>)

\* A and B each changed line k of the base's file, to different texts.
BothChanged(k) ==
    /\ fileA[k] # BaseFile[k]
    /\ fileB[k] # BaseFile[k]
    /\ fileA[k] # fileB[k]

\* C4: with a single base, when A and B changed one line differently and
\* M's file is B's, detect_evilness reports f in idiff_A or in idiff_B with
\* an interdiff that holds a line starting with "-+" or "+-".
C4_DroppedEditIsReported ==
    ( /\ estate = "returned"
      /\ \E k \in 1..FileLen : BothChanged(k)
      /\ fileM = fileB )
    => \/ FileF \in DOMAIN idiff_A /\ HasMixedSigns(idiff_A[FileF])
       \/ FileF \in DOMAIN idiff_B /\ HasMixedSigns(idiff_B[FileF])

\* Line 1 is a1 in A and b1 in B and M, line 2 is the base's in all; both
\* directions report f.
C4_Witness ==
    /\ estate = "returned"
    /\ BothChanged(1)
    /\ fileA[2] = "c" /\ fileB[2] = "c"
    /\ fileM = fileB
    /\ FileF \in DOMAIN idiff_A /\ HasMixedSigns(idiff_A[FileF])
    /\ FileF \in DOMAIN idiff_B /\ HasMixedSigns(idiff_B[FileF])

(***************************************************************************)
(* Properties of the command line                                          *)
(***************************************************************************)

\* The lines of stdout that input line n made the program print.
PrintedFor(n) ==
    LET OfLine(e) == e[1] = n
    IN  SelectSeq(stdout, OfLine)

\* The input lines the run has dealt with: in batch mode the lines before
\* lineno and the line an exception stopped the loop at.
Handled ==
    IF bstate = "exited" /\ exit_status = 1 /\ lineno <= Len(input)
    THEN 1..lineno
    ELSE 1..(lineno - 1)

\* The argument list names a commit without exactly two parents and no
\* parents of its own.
NotAMerge(args) ==
    /\ Len(args) \in 1..2
    /\ Len(Parents[args[1]]) # 2

\* The argument list gives no base, and git finds more than one merge base
\* for the two parents of its merge.
SeveralBases(args) ==
    /\ Len(args) \in 1..3
    /\ LET parents == IF Len(args) = 3 THEN <<args[2], args[3]>>
                      ELSE Parents[args[1]]
       IN  /\ Len(parents) = 2
           /\ Len(MergeBases(parents[1], parents[2])) > 1

\* C5: evil-base-diffdiff.py, given a merge without an explicit base for
\* which git finds more than one merge base, fails: without --stdin it
\* writes a diagnostic and exits with status 1, with --stdin it prints
\* nothing for the line and goes on to the next line.
C5_SeveralBasesRejected ==
    (tool = "diffdiff" /\ bstate # "idle") =>
        IF options_stdin
        THEN \A n \in Handled :
                SeveralBases(input[n]) => /\ PrintedFor(n) = <<>>
                                          /\ n < lineno
        ELSE (bstate = "exited" /\ SeveralBases(input[1])) =>
                /\ exit_status = 1
                /\ stderr # <<>>
                /\ stdout = <<>>

\* C6: with --stdin the lines are handled in input order; an empty line and
\* a line whose commit is not a two-parent merge print nothing and do not
\* stop the loop, and every line handled prints what process_args prints
\* for it alone; without --stdin a commit that is not a two-parent merge
\* ends the program with status 1 after a diagnostic.
C6_BatchSkipsAndGoesOn ==
    bstate # "idle" =>
        IF options_stdin
        THEN /\ \A n \in Handled :
                    (input[n] = <<>> \/ NotAMerge(input[n])) =>
                        /\ PrintedFor(n) = <<>>
                        /\ n < lineno
             /\ \A n \in 1..(lineno - 1) :
                    \E r \in process_args(tool, input[n], FALSE) :
                        /\ r.kind = "return"
                        /\ PrintedFor(n) = Numbered(r.out, n)
             /\ \A i, j \in 1..Len(stdout) : i < j => stdout[i][1] <= stdout[j][1]
        ELSE (bstate = "exited" /\ NotAMerge(input[1])) =>
                /\ exit_status = 1
                /\ stderr # <<>>
                /\ stdout = <<>>

====
